---- MODULE Spec2Model ----
(***************************************************************************)
(* Model of src/src/App.jsx (schneegerverteiler): the expense collection   *)
(* and its snapshot listener, the balance computation (useMemo `balances`) *)
(* and the greedy settlement (calculateSettlements).                       *)
(*                                                                         *)
(* Money.  The code computes in IEEE doubles.  The model computes exactly: *)
(* an expense amount is a whole number of cents, and a balance is a whole  *)
(* number of sub-cents, Unit sub-cents to the cent, where Unit is the      *)
(* least common multiple of the possible sizes of `involved`, so that      *)
(* amount / involved.length is exact.  The doubles differ from the exact   *)
(* values by far less than one sub-cent; that difference decides an        *)
(* outcome only where the exact value sits on a threshold (a half cent in  *)
(* Math.round, one cent in `< 0.01`), and there the model allows both      *)
(* outcomes (0.03 - 0.02 < 0.01 is true and 0.04 - 0.03 < 0.01 is false    *)
(* in doubles; Math.round(1.005 * 100) is 100 and Math.round(1.5) is 2).   *)
(* After rounding, debtors, creditors and transactions are whole cents.    *)
(***************************************************************************)
EXTENDS Integers, Sequences, FiniteSets, Bags, TLC

\* Largest expense amount, in cents.
MaxAmount == 2
\* Largest number of documents held by the expenses collection.
MaxDocs == 2
\* Largest magnitude, in cents, of a balance of an arbitrary balance map.
MaxBal == 3

\* The roster: the first three names of PARTICIPANT_CONFIG, in its order.
participants == <<"Theo", "Lillian", "Ruben">>

Roster == {participants[n] : n \in 1..Len(participants)}

Abs(x) == IF x < 0 THEN -x ELSE x

Min(a, b) == IF a <= b THEN a ELSE b

RECURSIVE Gcd(_, _)
Gcd(a, b) == IF b = 0 THEN a ELSE Gcd(b, a % b)

RECURSIVE LcmUpTo(_)
LcmUpTo(n) == IF n <= 1 THEN 1 ELSE (LcmUpTo(n - 1) * n) \div Gcd(LcmUpTo(n - 1), n)

\* Sub-cents per cent: every amount / involved.length is a whole number of them.
Unit == LcmUpTo(Len(participants))

\* Every document the collection can hold: the form's own (non-empty involved)
\* and those another writer may have put there (involved possibly empty).
ExpenseDomain == [amount : 1..MaxAmount, payer : Roster, involved : SUBSET Roster]

VARIABLES
  currentUser,   \* auth.currentUser is set
  initPc,        \* where initFirebase stands: "start", "awaiting", "subscribed", "failed"
  unsubscribe,   \* the effect's `unsubscribe` is non-null
  listening,     \* the onSnapshot listener is registered with the store
  initialDue,    \* the listener's first snapshot has not been delivered yet
  mounted,       \* the effect's cleanup has not run
  store,         \* the documents of the 'expenses' collection, a bag
  expenses,      \* the component's `expenses` state, a bag
  balances,      \* the memoised `balances`, participant -> sub-cents
  pc,            \* the render: "memo" (balances due), "idle", and in
                 \* calculateSettlements "loop", "done"
  debtors,       \* sorted list of [person, amount] in cents, amount < 0
  creditors,     \* sorted list of [person, amount] in cents, amount > 0
  i,             \* debtor index
  j,             \* creditor index
  transactions   \* list of [from, to, amount], amount in cents

appVars == <<currentUser, initPc, unsubscribe, listening, initialDue, mounted, store>>
settleVars == <<pc, debtors, creditors, i, j, transactions>>
vars == <<appVars, expenses, balances, settleVars>>

----
\* The balance computation.

ZeroBalances == [p \in Roster |-> 0]

\* The guard of the forEach body: `!exp.involved || exp.involved.length === 0`.
Skipped(exp) == exp.involved = {}

\* The mutant of ApplyExpense for C7: the guard is gone; the payer is credited
\* and the forEach over the empty `involved` debits nobody.
ApplyExpenseUnguarded(bal, exp) ==
  [p \in Roster |->
     bal[p]
     + (IF p = exp.payer THEN exp.amount * Unit ELSE 0)
     - (IF p \in exp.involved
        THEN (exp.amount * Unit) \div Cardinality(exp.involved) ELSE 0)]

\* The mutant of ApplyExpense for C3: the share is taken from the amount
\* truncated to whole cents per head.
ApplyExpenseTruncated(bal, exp) ==
  IF Skipped(exp) THEN bal
  ELSE [p \in Roster |->
          bal[p]
          + (IF p = exp.payer THEN exp.amount * Unit ELSE 0)
          - (IF p \in exp.involved
             THEN (exp.amount \div Cardinality(exp.involved)) * Unit ELSE 0)]

\* One expense: the payer is credited the amount, each involved is debited the share.
ApplyExpense(bal, exp) ==
  IF Skipped(exp) THEN bal
  ELSE [p \in Roster |->
          bal[p]
          + (IF p = exp.payer THEN exp.amount * Unit ELSE 0)
          - (IF p \in exp.involved
             THEN (exp.amount * Unit) \div Cardinality(exp.involved) ELSE 0)]

RECURSIVE FoldExpenses(_, _)
FoldExpenses(bal, exps) ==
  IF BagToSet(exps) = {} THEN bal
  ELSE LET exp == CHOOSE e \in BagToSet(exps) : TRUE
       IN FoldExpenses(ApplyExpense(bal, exp), exps (-) SetToBag({exp}))

\* `balances`: every participant starts at 0, then every expense is applied.
ComputeBalances(exps) == FoldExpenses(ZeroBalances, exps)

----
\* The component: sign-in, the snapshot listener, the collection.

\* A write to the collection.  The store raises a snapshot for every change
\* while the listener is registered, and the listener's callback replaces
\* `expenses` by the snapshot's documents; `balances` is recomputed.
Commit(newStore) ==
  /\ store' = newStore
  /\ IF listening
     THEN /\ expenses' = newStore
          /\ balances' = ComputeBalances(newStore)
          /\ initialDue' = FALSE
     ELSE UNCHANGED <<expenses, balances, initialDue>>

\* onSnapshot(expensesCollectionRef, ...): the listener is registered.
Subscribe ==
  /\ listening' = TRUE
  /\ unsubscribe' = TRUE
  /\ initialDue' = TRUE
  /\ initPc' = "subscribed"

\* initFirebase() up to its first await: with a current user it runs on to
\* onSnapshot at once, without one it waits for signInAnonymously.
InitFirebase ==
  /\ initPc = "start"
  /\ IF currentUser
     THEN Subscribe
     ELSE /\ initPc' = "awaiting"
          /\ UNCHANGED <<unsubscribe, listening, initialDue>>
  /\ UNCHANGED <<currentUser, mounted, store, expenses, balances, settleVars>>

\* signInAnonymously resolves: initFirebase goes on to onSnapshot.
SignInResolved ==
  /\ initPc = "awaiting"
  /\ currentUser' = TRUE
  /\ Subscribe
  /\ UNCHANGED <<mounted, store, expenses, balances, settleVars>>

\* signInAnonymously rejects: the catch logs and returns.
SignInRejected ==
  /\ initPc = "awaiting"
  /\ initPc' = "failed"
  /\ UNCHANGED <<currentUser, unsubscribe, listening, initialDue, mounted,
                 store, expenses, balances, settleVars>>

\* The effect's cleanup (unmount): unsubscribes if `unsubscribe` is set.
Cleanup ==
  /\ mounted
  /\ initPc # "start"
  /\ mounted' = FALSE
  /\ IF unsubscribe
     THEN listening' = FALSE /\ initialDue' = FALSE
     ELSE UNCHANGED <<listening, initialDue>>
  /\ UNCHANGED <<currentUser, initPc, unsubscribe, store, expenses, balances, settleVars>>

\* The listener's callback on its first snapshot: setExpenses(nextExpenses).
OnSnapshot ==
  /\ listening
  /\ initialDue
  /\ initialDue' = FALSE
  /\ expenses' = store
  /\ balances' = ComputeBalances(store)
  /\ UNCHANGED <<currentUser, initPc, unsubscribe, listening, mounted, store, settleVars>>

\* handleAddExpense: the form's guard (amount and involved not empty), then
\* addDoc; the amounts entered are the positive ones up to MaxAmount.
handleAddExpense ==
  /\ mounted
  /\ BagCardinality(store) < MaxDocs
  /\ \E amount \in 1..MaxAmount, payer \in Roster, involved \in SUBSET Roster :
       /\ involved # {}
       /\ Commit(store (+) SetToBag({[amount |-> amount, payer |-> payer,
                                      involved |-> involved]}))
  /\ UNCHANGED <<currentUser, initPc, unsubscribe, listening, mounted, settleVars>>

\* handleDeleteExpense(id): deleteDoc of a listed expense; a document already
\* gone from the collection is left gone.
handleDeleteExpense ==
  /\ mounted
  /\ \E exp \in BagToSet(expenses) :
       Commit(IF BagIn(exp, store) THEN store (-) SetToBag({exp}) ELSE store)
  /\ UNCHANGED <<currentUser, initPc, unsubscribe, listening, mounted, settleVars>>

\* Another writer of the shared collection adds or deletes a document; it is
\* followed for as long as this component has, or may still get, a listener.
RemoteWrite ==
  /\ listening \/ initPc \in {"start", "awaiting"}
  /\ \/ /\ BagCardinality(store) < MaxDocs
        /\ \E exp \in ExpenseDomain : Commit(store (+) SetToBag({exp}))
     \/ \E exp \in BagToSet(store) : Commit(store (-) SetToBag({exp}))
  /\ UNCHANGED <<currentUser, initPc, unsubscribe, listening, mounted, settleVars>>

Init ==
  /\ currentUser \in BOOLEAN
  /\ initPc = "start"
  /\ unsubscribe = FALSE
  /\ listening = FALSE
  /\ initialDue = FALSE
  /\ mounted = TRUE
  /\ store = EmptyBag
  /\ expenses = EmptyBag
  /\ balances = ZeroBalances
  /\ pc = "idle"
  /\ debtors = <<>>
  /\ creditors = <<>>
  /\ i = 0
  /\ j = 0
  /\ transactions = <<>>

Next ==
  \/ InitFirebase
  \/ SignInResolved
  \/ SignInRejected
  \/ Cleanup
  \/ OnSnapshot
  \/ handleAddExpense
  \/ handleDeleteExpense
  \/ RemoteWrite

Spec == Init /\ [][Next]_vars

----
\* calculateSettlements.

\* Math.round(amount * 100): the nearest whole cent, a half cent going up; the
\* double nearest to an exact half cent may lie on either side of it.
RoundOutcomes(b) ==
  IF b % Unit = Unit \div 2
  THEN {b \div Unit, b \div Unit + 1}
  ELSE {(b + Unit \div 2) \div Unit}

\* Every map of rounded values `val` the balance map can give.
RoundedMaps(bal) ==
  {vals \in [Roster -> UNION {RoundOutcomes(bal[p]) : p \in Roster}] :
     \A p \in Roster : vals[p] \in RoundOutcomes(bal[p])}

\* The mutant of Classify for C8: the thresholds include one cent.
ClassifyInclusive(val) ==
  IF val <= -1 THEN "debtor" ELSE IF val >= 1 THEN "creditor" ELSE "settled"

\* `val < -0.01` and `val > 0.01`, val in cents.
Classify(val) ==
  IF val < -1 THEN "debtor" ELSE IF val > 1 THEN "creditor" ELSE "settled"

\* The entries of one class, in the order of Object.entries(balances).
RECURSIVE Entries(_, _, _)
Entries(vals, class, n) ==
  IF n = 0 THEN <<>>
  ELSE LET rest == Entries(vals, class, n - 1)
           person == participants[n]
       IN IF Classify(vals[person]) = class
          THEN Append(rest, [person |-> person, amount |-> vals[person]])
          ELSE rest

\* Array.prototype.sort is stable: x goes behind every entry that does not
\* have to follow it.  sign = 1 sorts ascending, sign = -1 descending.
RECURSIVE InsertSorted(_, _, _)
InsertSorted(list, x, sign) ==
  IF list = <<>> THEN <<x>>
  ELSE IF sign * (Head(list).amount - x.amount) > 0
       THEN <<x>> \o list
       ELSE <<Head(list)>> \o InsertSorted(Tail(list), x, sign)

RECURSIVE SortByAmount(_, _)
SortByAmount(list, sign) ==
  IF list = <<>> THEN <<>>
  ELSE InsertSorted(SortByAmount(SubSeq(list, 1, Len(list) - 1), sign),
                    list[Len(list)], sign)

\* The mutant of AmountToSettle for C6: the debt is taken with its sign.
AmountToSettleSigned(debt, credit) == Min(debt, credit)

\* Math.min(Math.abs(debtor.amount), creditor.amount)
AmountToSettle(debt, credit) == Min(Abs(debt), credit)

\* `x < 0.01` for x a whole number of cents computed in doubles: exactly one
\* cent comes out a hair below or a hair above 0.01.
BelowCent(x) == IF x = 1 THEN BOOLEAN ELSE {x < 1}

\* The mutant of DebtorSettled for C5: the debtor counts as settled only below zero.
DebtorSettledBelowZero(rem) == {Abs(rem) < 0}

\* `Math.abs(debtor.amount) < 0.01`
DebtorSettled(rem) == BelowCent(Abs(rem))

\* The mutant of CreditorSettled for C4: the creditor counts as settled only below zero.
CreditorSettledBelowZero(rem) == {rem < 0}

\* `creditor.amount < 0.01`
CreditorSettled(rem) == BelowCent(rem)

\* The render recomputes the memoised `balances` from `expenses`.
Memo ==
  /\ pc = "memo"
  /\ balances' = ComputeBalances(expenses)
  /\ pc' = "idle"
  /\ UNCHANGED <<appVars, expenses, debtors, creditors, i, j, transactions>>

\* Steps 1 and 2: round, separate into the two lists, sort them; start the cursors.
StartSettle ==
  /\ pc = "idle"
  /\ \E vals \in RoundedMaps(balances) :
       /\ debtors' = SortByAmount(Entries(vals, "debtor", Len(participants)), 1)
       /\ creditors' = SortByAmount(Entries(vals, "creditor", Len(participants)), -1)
  /\ transactions' = <<>>
  /\ i' = 0
  /\ j' = 0
  /\ pc' = "loop"
  /\ UNCHANGED <<appVars, expenses, balances>>

\* One iteration of the greedy matching loop.
LoopIter ==
  /\ pc = "loop"
  /\ i < Len(debtors) /\ j < Len(creditors)
  /\ LET debtor == debtors[i + 1]
         creditor == creditors[j + 1]
         amountToSettle == AmountToSettle(debtor.amount, creditor.amount)
         debtRem == debtor.amount + amountToSettle
         creditRem == creditor.amount - amountToSettle
     IN /\ transactions' = Append(transactions,
                                  [from |-> debtor.person, to |-> creditor.person,
                                   amount |-> amountToSettle])
        /\ debtors' = [debtors EXCEPT ![i + 1].amount = debtRem]
        /\ creditors' = [creditors EXCEPT ![j + 1].amount = creditRem]
        /\ \E debtorSettled \in DebtorSettled(debtRem) :
             i' = IF debtorSettled THEN i + 1 ELSE i
        /\ \E creditorSettled \in CreditorSettled(creditRem) :
             j' = IF creditorSettled THEN j + 1 ELSE j
  /\ UNCHANGED <<pc, appVars, expenses, balances>>

\* The loop condition fails: `return transactions`.
Return ==
  /\ pc = "loop"
  /\ ~(i < Len(debtors) /\ j < Len(creditors))
  /\ pc' = "done"
  /\ UNCHANGED <<appVars, expenses, balances, debtors, creditors, i, j, transactions>>

SettleNext ==
  \/ StartSettle
  \/ LoopIter
  \/ Return

\* The component, subscribed, holding the given expenses and balances.
Holding(exps, bal, at) ==
  /\ currentUser = TRUE
  /\ initPc = "subscribed"
  /\ unsubscribe = TRUE
  /\ listening = TRUE
  /\ initialDue = FALSE
  /\ mounted = TRUE
  /\ store = exps
  /\ expenses = exps
  /\ balances = bal
  /\ pc = at
  /\ debtors = <<>>
  /\ creditors = <<>>
  /\ i = 0
  /\ j = 0
  /\ transactions = <<>>

\* Every collection of at most n documents.
RECURSIVE BagsUpTo(_)
BagsUpTo(n) ==
  IF n = 0 THEN {EmptyBag}
  ELSE LET smaller == BagsUpTo(n - 1)
       IN smaller \cup {b (+) SetToBag({exp}) : b \in smaller, exp \in ExpenseDomain}

\* The render of every expense list: the balances, then calculateSettlements.
ExpenseInit == \E exps \in BagsUpTo(MaxDocs) : Holding(exps, ZeroBalances, "memo")

ExpenseNext ==
  \/ Memo
  \/ StartSettle
  \/ LoopIter
  \/ Return

ExpenseSpec == ExpenseInit /\ [][ExpenseNext]_vars /\ WF_vars(ExpenseNext)

\* calculateSettlements on every balance map.
SettleInit ==
  \E bal \in [Roster -> (-(MaxBal * Unit))..(MaxBal * Unit)] : Holding(EmptyBag, bal, "idle")

SettleSpec == SettleInit /\ [][SettleNext]_vars /\ WF_vars(SettleNext)

----
\* The properties.

RECURSIVE SumBalances(_, _)
SumBalances(bal, people) ==
  IF people = {} THEN 0
  ELSE LET p == CHOOSE q \in people : TRUE
       IN bal[p] + SumBalances(bal, people \ {p})

RECURSIVE SumAmounts(_, _, _)
SumAmounts(txs, field, person) ==
  IF txs = <<>> THEN 0
  ELSE (IF Head(txs)[field] = person THEN Head(txs).amount ELSE 0)
       + SumAmounts(Tail(txs), field, person)

RECURSIVE TotalAmount(_)
TotalAmount(txs) == IF txs = <<>> THEN 0 ELSE Head(txs).amount + TotalAmount(Tail(txs))

\* The expenses that reach the forEach body's arithmetic.
RECURSIVE Contributing(_)
Contributing(exps) ==
  IF BagToSet(exps) = {} THEN EmptyBag
  ELSE LET exp == CHOOSE e \in BagToSet(exps) : TRUE
           rest == Contributing(exps (-) SetToBag({exp}))
       IN IF Skipped(exp) THEN rest ELSE rest (+) SetToBag({exp})

\* Positive amounts, payer in the roster, involved a non-empty subset of it.
WellFormed(exps) ==
  \A exp \in BagToSet(exps) :
    exp.amount > 0 /\ exp.payer \in Roster /\ exp.involved # {} /\ exp.involved \subseteq Roster

AllSkipped(exps) == \A exp \in BagToSet(exps) : Skipped(exp)

\* One cent, the tolerance, in sub-cents.
Tolerance == Unit

\* A balance after the transactions are applied as the claim words it: the
\* amount is added to `to` and subtracted from `from`.
ResidualAsWorded(p) ==
  balances[p] + Unit * SumAmounts(transactions, "to", p)
              - Unit * SumAmounts(transactions, "from", p)

\* A balance after the transactions are carried out as payments: `from` pays
\* the amount to `to`, which brings both balances towards zero.
ResidualAsPaid(p) ==
  balances[p] - Unit * SumAmounts(transactions, "to", p)
              + Unit * SumAmounts(transactions, "from", p)

\* C1: for the balances of a well-formed expense list, applying all returned
\* transactions leaves every participant's balance within 0.01 of zero.  The
\* claim is taken in its most favourable reading: it is enough that the
\* balances come out within 0.01 of zero in one of the two directions a
\* transaction can be applied in.
C1_SettlementZeroesBalances ==
  (pc = "done" /\ WellFormed(expenses)) =>
    \/ \A p \in Roster : Abs(ResidualAsWorded(p)) <= Tolerance
    \/ \A p \in Roster : Abs(ResidualAsPaid(p)) <= Tolerance

TotalCredit == SumBalances([p \in Roster |-> IF balances[p] > 0 THEN balances[p] ELSE 0], Roster)

\* C2: for the balances of a well-formed expense list, the sum of the returned
\* transaction amounts equals the sum of the positive balances within 0.01.
C2_SettlementConservesCredit ==
  (pc = "done" /\ WellFormed(expenses)) =>
    Abs(Unit * TotalAmount(transactions) - TotalCredit) <= Tolerance

\* C3: after every snapshot, whatever was added to or deleted from the
\* collection (documents with empty involved included), the balances of all
\* participants sum to zero within 0.01.
C3_ZeroSum == Abs(SumBalances(balances, Roster)) <= Tolerance

\* C3's case: a snapshot holding a contributing and an empty-involved expense
\* has been delivered, and the division left a balance off the whole cents.
C3_Witness ==
  /\ \E e1, e2 \in BagToSet(expenses) : Skipped(e1) /\ ~Skipped(e2)
  /\ \E p \in Roster : balances[p] % Unit # 0
  /\ store = expenses

\* C4 as stated: at most |debtors| + |creditors| - 1 transactions are
\* returned for every balance map.
C4_AtMostListsMinusOne ==
  pc = "done" => Len(transactions) <= Len(debtors) + Len(creditors) - 1

\* C4 as amended: no transaction is returned when there is neither a debtor
\* nor a creditor, and at most |debtors| + |creditors| - 1 otherwise; the
\* count stays within that bound all through the loop.
C4_AtMostListsMinusOneOrNone ==
  pc \in {"loop", "done"} =>
    IF debtors = <<>> /\ creditors = <<>>
    THEN transactions = <<>>
    ELSE Len(transactions) <= Len(debtors) + Len(creditors) - 1

\* C4's case: the loop has run and the bound is met with two transactions.
C4_Witness ==
  /\ pc = "done"
  /\ Len(transactions) = 2
  /\ Len(debtors) + Len(creditors) = 3

\* C5: every iteration of the matching loop advances the debtor cursor, the
\* creditor cursor or both, no cursor passes the end of its list, and the
\* loop ends.
C5_LoopTerminates ==
  /\ [][(pc = "loop" /\ pc' = "loop") =>
          /\ i' > i \/ j' > j
          /\ i' >= i /\ j' >= j
          /\ i' <= Len(debtors) /\ j' <= Len(creditors)]_vars
  /\ <>(pc = "done")

\* C5's case: the loop has ended after two iterations, one of which advanced
\* both cursors.
C5_Witness ==
  /\ pc = "done"
  /\ Len(transactions) = 2
  /\ i + j = 3

WholeCents(bal) == \A p \in Roster : bal[p] % Unit = 0

\* C6: for a balance map of whole cents, every transaction has an amount of
\* at least 0.01.
C6_PositiveAmounts ==
  WholeCents(balances) =>
    \A k \in 1..Len(transactions) : transactions[k].amount >= 1

\* C6's case: a whole-cent map whose settlement ends with a transaction of
\* exactly one cent, the remainder of an earlier match.
C6_Witness ==
  /\ pc = "done"
  /\ WholeCents(balances)
  /\ Len(transactions) = 2
  /\ transactions[2].amount = 1

\* C7: the balances are those of the expense list without its empty-involved
\* expenses; a list of only such expenses gives all-zero balances, no debtor,
\* no creditor and no transaction.
C7_EmptyInvolvedSkipped ==
  pc # "memo" =>
    /\ balances = ComputeBalances(Contributing(expenses))
    /\ AllSkipped(expenses) =>
         /\ balances = ZeroBalances
         /\ debtors = <<>> /\ creditors = <<>> /\ transactions = <<>>

\* C7's case: a list with an empty-involved expense beside a contributing
\* one has been settled, with a transaction.
C7_Witness ==
  /\ pc = "done"
  /\ \E e1, e2 \in BagToSet(expenses) : Skipped(e1) /\ ~Skipped(e2)
  /\ transactions # <<>>

WithinTolerance(bal) == \A p \in Roster : Abs(bal[p]) <= Tolerance

\* C8: a balance map whose values all lie within 0.01 of zero, the bounds
\* included, gives an empty list.
C8_BalancedGivesNone ==
  WithinTolerance(balances) => debtors = <<>> /\ creditors = <<>> /\ transactions = <<>>

\* C8's case: the settlement of a map with one balance at exactly +0.01 and
\* one at exactly -0.01 has returned.
C8_Witness ==
  /\ pc = "done"
  /\ WithinTolerance(balances)
  /\ \E p, q \in Roster : balances[p] = Tolerance /\ balances[q] = -Tolerance

\* C9: for the balances of a well-formed expense list, both cursors are at
\* the end of their lists when the loop ends.
C9_BothCursorsExhausted ==
  (pc = "done" /\ WellFormed(expenses)) =>
    i = Len(debtors) /\ j = Len(creditors)

\* C10: once the effect's cleanup has run, no snapshot listener is registered.
C10_NoListenerAfterCleanup == ~mounted => ~listening

====
